---- MODULE Spec2Model ----
(***************************************************************************)
(* Model of the scribe test object dispatcher (object.go) and of the       *)
(* file-content source with its file locator and content matcher           *)
(* (filecontent.go).                                                       *)
(*                                                                         *)
(* Strings are sequences of one-character strings, so that the empty       *)
(* string is <<>>, len(s) is Len(s) and a path is the character sequence   *)
(* the code builds with filepath.Join.                                     *)
(***************************************************************************)
EXTENDS Integers, Sequences, FiniteSets, TLC

VARIABLES fs, d, ext, o, sfl, op, arg, ret, criteria, si, io, panicked,
          walk, race

vars == <<fs, d, ext, o, sfl, op, arg, ret, criteria, si, io, panicked,
          walk, race>>

(***************************************************************************)
(* Bounds of the model.                                                    *)
(***************************************************************************)
\* Number of nested directory levels of the deep file system (root = 1).
TreeDepth == 12

(***************************************************************************)
(* Errors.  An error value is a record; Nil is Go's nil error.  "wrapped"  *)
(* is true for fmt.Errorf("%v: ...", o.Object, ...), and id is then the    *)
(* identifier that was formatted into the message.                         *)
(***************************************************************************)
Nil == [nil |-> TRUE, wrapped |-> FALSE, id |-> <<>>, msg |-> ""]

Errorf(msg) == [nil |-> FALSE, wrapped |-> FALSE, id |-> <<>>, msg |-> msg]

ErrorfId(id, msg) == [nil |-> FALSE, wrapped |-> TRUE, id |-> id, msg |-> msg]

(***************************************************************************)
(* Regular expressions (package regexp), for the fragment used here:       *)
(* literal characters, "." and capture groups.  A pattern compiles when    *)
(* its parentheses balance; matching is unanchored and leftmost; "." does  *)
(* not match a newline.                                                    *)
(***************************************************************************)
NL == "\n"

ParenDepth(p, i) ==
    Cardinality({j \in 1..i : p[j] = "("}) - Cardinality({j \in 1..i : p[j] = ")"})

regexp_Compile(p) ==
    /\ \A i \in 1..Len(p) : ParenDepth(p, i) >= 0
    /\ ParenDepth(p, Len(p)) = 0

IsAtom(c) == c \notin {"(", ")"}

Atoms(p) == SelectSeq(p, IsAtom)

AtomsBefore(p, i) == Cardinality({j \in 1..(i - 1) : IsAtom(p[j])})

AtomMatches(a, c) == IF a = "." THEN c # NL ELSE a = c

MatchAt(p, s, i) ==
    LET at == Atoms(p)
    IN  /\ i + Len(at) - 1 <= Len(s)
        /\ \A k \in 1..Len(at) : AtomMatches(at[k], s[i + k - 1])

MatchString(p, s) == \E i \in 1..(Len(s) + 1) : MatchAt(p, s, i)

\* The index of the ")" that closes the "(" at index j of p.
CloseOf(p, j) ==
    CHOOSE c \in (j + 1)..Len(p) :
        /\ p[c] = ")"
        /\ ParenDepth(p, c) = ParenDepth(p, j) - 1
        /\ \A e \in (j + 1)..(c - 1) :
               ~(p[e] = ")" /\ ParenDepth(p, e) = ParenDepth(p, j) - 1)

\* The indices of the "(" of p, in left-to-right order (group numbering).
GroupOpens(p) ==
    LET S == {j \in 1..Len(p) : p[j] = "("}
    IN  [k \in 1..Cardinality(S) |->
            CHOOSE j \in S : Cardinality({x \in S : x < j}) = k - 1]

\* The leftmost index of s at which p matches.
LeftmostMatch(p, s) ==
    CHOOSE x \in 1..(Len(s) + 1) :
        MatchAt(p, s, x) /\ \A y \in 1..(x - 1) : ~MatchAt(p, s, y)

\* The full match of p at index i of s, then the text of each group of go.
Submatch(p, s, i, go) ==
    <<SubSeq(s, i, i + Len(Atoms(p)) - 1)>> \o
    [k \in 1..Len(go) |->
        SubSeq(s, i + AtomsBefore(p, go[k]),
                  i + AtomsBefore(p, CloseOf(p, go[k])) - 1)]

\* re.FindStringSubmatch(s): <<>> when there is no match, else the full
\* match followed by the text of each capture group.
FindStringSubmatch(p, s) ==
    IF ~MatchString(p, s) THEN <<>>
    ELSE Submatch(p, s, LeftmostMatch(p, s), GroupOpens(p))

(***************************************************************************)
(* The file system.  A node is a record: a directory with its entries in   *)
(* file name order (ioutil.ReadDir sorts by name), a regular file with     *)
(* its bytes, or another kind of entry (symlink, device).  st says what    *)
(* the operating system answers: "ok", "noread" (ReadDir fails),           *)
(* "noopen" (os.Open fails) or "readerr" (a read fails before EOF).        *)
(***************************************************************************)
File(name, st, data) ==
    [name |-> name, kind |-> "file", st |-> st, entries |-> <<>>, data |-> data]

Dir(name, st, entries) ==
    [name |-> name, kind |-> "dir", st |-> st, entries |-> entries, data |-> <<>>]

Other(name) ==
    [name |-> name, kind |-> "other", st |-> "ok", entries |-> <<>>, data |-> <<>>]

TwoHits == <<"k", "1", NL, "x", NL, "k", "2", NL>>
OneHit  == <<"x", NL, "k", "1", NL>>
NoHit   == <<"x", NL>>
NoFinalNewline == <<"k", "1", NL, "k", "2">>

RECURSIVE DeepDir(_, _)
DeepDir(name, k) ==
    Dir(name, "ok",
        IF k > 1 THEN <<File(<<"a">>, "ok", OneHit), DeepDir(<<"d">>, k - 1)>>
                 ELSE <<File(<<"a">>, "ok", OneHit)>>)

\* /r is the top of a chain of TreeDepth nested directories.
DeepFS == Dir(<<>>, "ok", <<DeepDir(<<"r">>, TreeDepth)>>)

\* /r has unreadable and readable subdirectories side by side.
BroadFS ==
    Dir(<<>>, "ok",
        <<Dir(<<"r">>, "ok",
              <<File(<<"a">>, "ok", TwoHits),
                File(<<"a", "b">>, "ok", NoHit),
                File(<<"b">>, "ok", OneHit),
                Other(<<"c">>),
                Dir(<<"u">>, "noread", <<File(<<"a">>, "ok", OneHit)>>),
                File(<<"u", "a">>, "ok", OneHit),
                Dir(<<"w">>, "ok",
                    <<File(<<"a">>, "noopen", OneHit),
                      Other(<<"a", "a">>),
                      Dir(<<"d">>, "ok", <<File(<<"a">>, "ok", NoFinalNewline)>>),
                      File(<<"k">>, "readerr", TwoHits)>>)>>)>>)

FileSystems == {DeepFS, BroadFS}

\* The components of a path, split at "/"; empty components are dropped.
RECURSIVE Split(_)
Split(p) ==
    IF p = <<>> THEN <<>>
    ELSE IF Head(p) = "/" THEN Split(Tail(p))
    ELSE LET stop == IF \E i \in 1..Len(p) : p[i] = "/"
                     THEN (CHOOSE i \in 1..Len(p) :
                              p[i] = "/" /\ \A j \in 1..(i - 1) : p[j] # "/")
                     ELSE Len(p) + 1
         IN  <<SubSeq(p, 1, stop - 1)>> \o Split(SubSeq(p, stop, Len(p)))

NoNode == [name |-> <<>>, kind |-> "none", st |-> "ok", entries |-> <<>>, data |-> <<>>]

RECURSIVE Walk(_, _)
Walk(node, comps) ==
    IF comps = <<>> THEN node
    ELSE IF node.kind # "dir" THEN NoNode
    ELSE IF \E i \in 1..Len(node.entries) : node.entries[i].name = Head(comps)
    THEN Walk(node.entries[CHOOSE i \in 1..Len(node.entries) :
                               node.entries[i].name = Head(comps)], Tail(comps))
    ELSE NoNode

\* The node a path names, NoNode when there is none ("" names nothing).
Resolve(tree, path) == IF path = <<>> THEN NoNode ELSE Walk(tree, Split(path))

\* What ioutil.ReadDir answers for node n.
ReadDirOf(n) ==
    IF n.kind = "dir" /\ n.st = "ok"
    THEN [err |-> FALSE, dirents |-> n.entries]
    ELSE [err |-> TRUE, dirents |-> <<>>]

\* ioutil.ReadDir(spath)
ReadDir(tree, spath) == ReadDirOf(Resolve(tree, spath))

\* filepath.Join(spath, name) for a non-empty spath and an entry name.
Join(spath, name) ==
    IF spath[Len(spath)] = "/" THEN spath \o name ELSE spath \o <<"/">> \o name

(***************************************************************************)
(* filecontent.go: the file locator.                                       *)
(***************************************************************************)
DefaultMaxDepth == 10

newSimpleFileLocator ==
    [executed |-> FALSE, root |-> <<"/">>, curDepth |-> 0,
     maxDepth |-> DefaultMaxDepth, matches |-> <<>>]

\* The result of a locator call: the locator afterwards, the error returned
\* and the paths handed to ioutil.ReadDir, in call order.
LocResult(s, err, reads) == [s |-> s, err |-> err, reads |-> reads]

\* Variant of LeaveDepth that leaves the depth as it is.
LeaveDepth_Skipped(s) == s

\* defer func() { s.curDepth-- }()
LeaveDepth(s) == [s EXCEPT !.curDepth = @ - 1]

\* The deferred function applied to the result of a locateInner call.
DeferDepth(r) == [r EXCEPT !.s = LeaveDepth(@)]

\* Variant of ExceedsDepth that compares the depth before the increment.
ExceedsDepth_OffByOne(s) == s.curDepth > s.maxDepth

\* if (s.curDepth + 1) > s.maxDepth { return nil }
ExceedsDepth(s) == (s.curDepth + 1) > s.maxDepth

\* Variant of ReadDirFailed that returns the error of ioutil.ReadDir.
ReadDirFailed_Propagates(s, reads) == LocResult(s, Errorf("readdir failed"), reads)

\* What locateInner does when ioutil.ReadDir fails.
ReadDirFailed(s, reads) == LocResult(s, Nil, reads)

\* The name test of locateInner for a regular file.
NameMatches(target, useRegexp, name) ==
    IF ~useRegexp THEN name = target ELSE MatchString(target, name)

RECURSIVE locateInner(_, _, _, _, _, _), locateDir(_, _, _, _, _, _, _),
          locateEntries(_, _, _, _, _, _, _, _), afterSubdir(_, _, _, _, _, _, _)
locateInner(tree, s, reads, target, useRegexp, path) ==
    IF ExceedsDepth(s) THEN LocResult(s, Nil, reads)
    ELSE IF useRegexp /\ ~regexp_Compile(target)
    THEN LocResult(s, Errorf("regexp: parse error"), reads)
    ELSE LET spath == IF path = <<>> THEN s.root ELSE path
         IN  DeferDepth(locateDir(tree, [s EXCEPT !.curDepth = @ + 1],
                                  Append(reads, spath), target, useRegexp, spath,
                                  ReadDir(tree, spath)))

\* locateInner from the answer rd of ioutil.ReadDir(spath) on.
locateDir(tree, s, reads, target, useRegexp, spath, rd) ==
    IF rd.err THEN ReadDirFailed(s, reads)
    ELSE locateEntries(tree, s, reads, target, useRegexp, spath, rd.dirents, 1)

\* The loop "for _, x := range dirents" of locateInner, from entry i on.
locateEntries(tree, s, reads, target, useRegexp, spath, dirents, i) ==
    IF i > Len(dirents) THEN LocResult(s, Nil, reads)
    ELSE LET x     == dirents[i]
             fname == Join(spath, x.name)
         IN  IF x.kind = "dir"
             THEN afterSubdir(tree, locateInner(tree, s, reads, target, useRegexp, fname),
                              target, useRegexp, spath, dirents, i)
             ELSE IF x.kind = "file" /\ NameMatches(target, useRegexp, x.name)
             THEN locateEntries(tree, [s EXCEPT !.matches = Append(@, fname)],
                                reads, target, useRegexp, spath, dirents, i + 1)
             ELSE locateEntries(tree, s, reads, target, useRegexp,
                                spath, dirents, i + 1)

\* The loop after the recursive call for the directory entry i returned r.
afterSubdir(tree, r, target, useRegexp, spath, dirents, i) ==
    IF ~r.err.nil THEN r
    ELSE locateEntries(tree, r.s, r.reads, target, useRegexp, spath, dirents, i + 1)

\* Variant of locate without the "executed" test.
locate_NoExecutedGuard(tree, s, target, useRegexp) ==
    locateInner(tree, [s EXCEPT !.executed = TRUE], <<>>, target, useRegexp, <<>>)

locate(tree, s, target, useRegexp) ==
    IF s.executed
    THEN LocResult(s, Errorf("locator has already been executed"), <<>>)
    ELSE locateInner(tree, [s EXCEPT !.executed = TRUE], <<>>, target, useRegexp, <<>>)

(***************************************************************************)
(* filecontent.go: the content matcher.                                    *)
(***************************************************************************)
\* The strings rdr.ReadString('\n') returns with a nil error: each includes
\* its newline.  Bytes after the last newline come back together with
\* io.EOF, where the loop breaks before it looks at them.
RECURSIVE ReadLines(_)
ReadLines(data) ==
    IF \A i \in 1..Len(data) : data[i] # NL THEN <<>>
    ELSE LET n == CHOOSE i \in 1..Len(data) :
                      data[i] = NL /\ \A j \in 1..(i - 1) : data[j] # NL
         IN  <<SubSeq(data, 1, n)>> \o ReadLines(SubSeq(data, n + 1, Len(data)))

\* The matchLine built from a non-empty FindStringSubmatch result.
newmatch(mtch) == [fullmatch |-> mtch[1], groups |-> Tail(mtch)]

\* if len(mtch) > 0 { ... ret = append(ret, newmatch) }
appendMatch(mtch) == IF Len(mtch) > 0 THEN <<newmatch(mtch)>> ELSE <<>>

RECURSIVE MatchLines(_, _)
MatchLines(regex, lines) ==
    IF lines = <<>> THEN <<>>
    ELSE appendMatch(FindStringSubmatch(regex, Head(lines)))
         \o MatchLines(regex, Tail(lines))

\* fileContentCheck(path, regex): the match lines, the error, and the paths
\* handed to os.Open.  A nil slice is the empty sequence.
\* fileContentCheck from os.Open(path) on, n being the node path names.
openAndScan(path, regex, n) ==
    IF n.kind = "none" \/ n.st = "noopen"
    THEN [m |-> <<>>, err |-> Errorf("open failed"), opens |-> <<path>>]
    ELSE IF n.kind # "file" \/ n.st = "readerr"
    THEN [m |-> <<>>, err |-> Errorf("read failed"), opens |-> <<path>>]
    ELSE [m |-> MatchLines(regex, ReadLines(n.data)), err |-> Nil, opens |-> <<path>>]

fileContentCheck(tree, path, regex) ==
    IF ~regexp_Compile(regex)
    THEN [m |-> <<>>, err |-> Errorf("regexp: parse error"), opens |-> <<>>]
    ELSE openAndScan(path, regex, Resolve(tree, path))

(***************************************************************************)
(* filecontent.go: the file-content source.                                *)
(***************************************************************************)
\* Variant of FileContent.validate that does not compile the expression.
FileContent_validate_ExpressionUnchecked(f) ==
    IF Len(f.Path) = 0 THEN Errorf("filecontent path must be set")
    ELSE IF Len(f.File) = 0 THEN Errorf("filecontent file must be set")
    ELSE IF ~regexp_Compile(f.File) THEN Errorf("regexp: parse error")
    ELSE IF Len(f.Expression) = 0 THEN Errorf("filecontent expression must be set")
    ELSE Nil

FileContent_validate(f) ==
    IF Len(f.Path) = 0 THEN Errorf("filecontent path must be set")
    ELSE IF Len(f.File) = 0 THEN Errorf("filecontent file must be set")
    ELSE IF ~regexp_Compile(f.File) THEN Errorf("regexp: parse error")
    ELSE IF Len(f.Expression) = 0 THEN Errorf("filecontent expression must be set")
    ELSE IF ~regexp_Compile(f.Expression) THEN Errorf("regexp: parse error")
    ELSE Nil

\* variableExpansion(v, s): every placeholder of s that names a variable of
\* v is replaced by the value of the first such variable.
RECURSIVE variableExpansion(_, _)
variableExpansion(v, s) ==
    IF s = <<>> THEN <<>>
    ELSE (IF \E i \in 1..Len(v) : v[i].Key = Head(s)
          THEN v[CHOOSE i \in 1..Len(v) :
                     v[i].Key = Head(s) /\ \A j \in 1..(i - 1) : v[j].Key # Head(s)].Value
          ELSE <<Head(s)>>)
         \o variableExpansion(v, Tail(s))

FileContent_expandVariables(f, v) ==
    [f EXCEPT !.Path = variableExpansion(v, f.Path),
              !.File = variableExpansion(v, f.File)]

\* The three nested loops of getCriteria, innermost first.
RECURSIVE CriteriaOfGroups(_, _), CriteriaOfLines(_, _), CriteriaOfMatches(_)
CriteriaOfGroups(path, groups) ==
    IF groups = <<>> THEN <<>>
    ELSE <<[Identifier |-> path, TestValue |-> Head(groups)]>>
         \o CriteriaOfGroups(path, Tail(groups))

\* Variant of CriteriaOfLines that reports the first match line of a file only.
CriteriaOfLines_FirstLineOnly(path, lines) ==
    IF lines = <<>> THEN <<>> ELSE CriteriaOfGroups(path, Head(lines).groups)

CriteriaOfLines(path, lines) ==
    IF lines = <<>> THEN <<>>
    ELSE CriteriaOfGroups(path, Head(lines).groups) \o CriteriaOfLines(path, Tail(lines))

CriteriaOfMatches(matches) ==
    IF matches = <<>> THEN <<>>
    ELSE CriteriaOfLines(Head(matches).path, Head(matches).matches)
         \o CriteriaOfMatches(Tail(matches))

FileContent_getCriteria(f) == CriteriaOfMatches(f.matches)

\* Variant of SkipNoMatch that keeps files without a match line.
SkipNoMatch_Never(m) == FALSE

\* if m == nil || len(m) == 0 { continue }
SkipNoMatch(m) == Len(m) = 0

\* The loop "for _, x := range sfl.matches" of FileContent.prepare: the
\* accumulated matches and the os.Open calls after the files from i on.
RECURSIVE CheckFiles(_, _, _, _, _, _), CheckFile(_, _, _, _, _, _, _)
CheckFiles(tree, expr, found, i, matches, opens) ==
    IF i > Len(found) THEN [matches |-> matches, opens |-> opens]
    ELSE CheckFile(tree, expr, found, i, matches, opens,
                   fileContentCheck(tree, found[i], expr))

\* Variant of CheckFile that leaves the loop at the first file that fails.
CheckFile_AbortOnError(tree, expr, found, i, matches, opens, c) ==
    IF ~c.err.nil THEN [matches |-> matches, opens |-> opens \o c.opens]
    ELSE IF SkipNoMatch(c.m)
    THEN CheckFiles(tree, expr, found, i + 1, matches, opens \o c.opens)
    ELSE CheckFiles(tree, expr, found, i + 1,
                    Append(matches, [path |-> found[i], matches |-> c.m]),
                    opens \o c.opens)

\* One round of the loop, c being what fileContentCheck returned for file i.
CheckFile(tree, expr, found, i, matches, opens, c) ==
    IF ~c.err.nil \/ SkipNoMatch(c.m)
    THEN CheckFiles(tree, expr, found, i + 1, matches, opens \o c.opens)
    ELSE CheckFiles(tree, expr, found, i + 1,
                    Append(matches, [path |-> found[i], matches |-> c.m]),
                    opens \o c.opens)

\* What FileContent.prepare returns after the loop: c holds the matches.
prepareDone(f, reads, c) ==
    [f |-> [f EXCEPT !.matches = c.matches], err |-> Nil,
     reads |-> reads, opens |-> c.opens]

\* FileContent.prepare from the result l of sfl.locate on.
prepareLocated(tree, f, l) ==
    IF ~l.err.nil
    THEN [f |-> f, err |-> l.err, reads |-> l.reads, opens |-> <<>>]
    ELSE prepareDone(f, l.reads,
                     CheckFiles(tree, f.Expression, l.s.matches, 1, f.matches, <<>>))

\* FileContent.prepare(): the source afterwards, the error returned, and
\* the directory reads and file opens it made.
FileContent_prepare(tree, f) ==
    prepareLocated(tree, f,
                   locate(tree, [newSimpleFileLocator EXCEPT !.root = f.Path],
                          f.File, TRUE))

(***************************************************************************)
(* object.go: the test object dispatcher.  The Package, FileName and Raw   *)
(* sources are not part of these files: of each only the field that        *)
(* getSourceInterface inspects is kept, and what their validate, prepare   *)
(* and isChain answer is given by ext.                                     *)
(***************************************************************************)
IONone == [reads |-> <<>>, opens |-> <<>>, expands |-> 0, prepares |-> 0]

\* Variant of getSourceInterface that does not test len(o.Raw.Identifiers).
getSourceInterface_RawUnchecked(ob) ==
    IF ob.Package.Name # <<>> THEN "Package"
    ELSE IF ob.FileContent.Path # <<>> THEN "FileContent"
    ELSE IF ob.FileName.Path # <<>> THEN "FileName"
    ELSE "Raw"

\* Variant of getSourceInterface that tests FileContent before Package.
getSourceInterface_FileContentFirst(ob) ==
    IF ob.FileContent.Path # <<>> THEN "FileContent"
    ELSE IF ob.Package.Name # <<>> THEN "Package"
    ELSE IF ob.FileName.Path # <<>> THEN "FileName"
    ELSE IF Len(ob.Raw.Identifiers) > 0 THEN "Raw"
    ELSE "nil"

getSourceInterface(ob) ==
    IF ob.Package.Name # <<>> THEN "Package"
    ELSE IF ob.FileContent.Path # <<>> THEN "FileContent"
    ELSE IF ob.FileName.Path # <<>> THEN "FileName"
    ELSE IF Len(ob.Raw.Identifiers) > 0 THEN "Raw"
    ELSE "nil"

\* si.validate() for the source p of ob.
si_validate(ob, e, p) ==
    IF p = "FileContent" THEN FileContent_validate(ob.FileContent) ELSE e.validate

\* si.isChain() for the source p of ob.
si_isChain(ob, e, p) == IF p = "FileContent" THEN FALSE ELSE e.isChain

\* p.expandVariables(d.Variables) for the source p of ob.
si_expandVariables(ob, v, p) ==
    IF p = "FileContent"
    THEN [ob EXCEPT !.FileContent = FileContent_expandVariables(ob.FileContent, v)]
    ELSE ob

\* ob after its FileContent source returned r from prepare.
withFileContent(ob, r) ==
    [o |-> [ob EXCEPT !.FileContent = r.f], err |-> r.err,
     reads |-> r.reads, opens |-> r.opens]

\* p.prepare() for the source p of ob.
si_prepare(tree, ob, e, p) ==
    IF p = "FileContent"
    THEN withFileContent(ob, FileContent_prepare(tree, ob.FileContent))
    ELSE [o |-> ob, err |-> e.prepare, reads |-> <<>>, opens |-> <<>>]

object_validate(ob, e) ==
    IF Len(ob.Object) = 0 THEN Errorf("an object in document has no identifier")
    ELSE LET p == getSourceInterface(ob)
         IN  IF p = "nil" THEN ErrorfId(ob.Object, "no valid source interface")
             ELSE LET err == si_validate(ob, e, p)
                  IN  IF ~err.nil THEN ErrorfId(ob.Object, err.msg) ELSE Nil

\* object.prepare from "if err != nil" on, r being what p.prepare() gave.
prepareReturn(r) ==
    [o   |-> IF ~r.err.nil THEN [r.o EXCEPT !.err = r.err] ELSE r.o,
     ret |-> r.err,
     io  |-> [reads |-> r.reads, opens |-> r.opens, expands |-> 1, prepares |-> 1]]

\* object.prepare from "p := o.getSourceInterface()" on.
prepareBody(tree, ob, doc, e) ==
    LET p == getSourceInterface(ob)
    IN  IF p = "nil"
        THEN [o   |-> [ob EXCEPT !.err = Errorf("object has no valid interface")],
              ret |-> Errorf("object has no valid interface"), io |-> IONone]
        ELSE prepareReturn(si_prepare(tree, si_expandVariables(ob, doc.Variables, p),
                                      e, p))

\* Variant of object.prepare without the "prepared" test.
object_prepare_NoPreparedGuard(tree, ob, doc, e) ==
    IF ob.isChain THEN [o |-> ob, ret |-> Nil, io |-> IONone]
    ELSE prepareBody(tree, [ob EXCEPT !.prepared = TRUE], doc, e)

\* Variant of object.prepare that sets prepared only after a success.
PreparedIfNil(r) == IF r.ret.nil THEN [r EXCEPT !.o.prepared = TRUE] ELSE r

object_prepare_PreparedOnSuccess(tree, ob, doc, e) ==
    IF ob.isChain THEN [o |-> ob, ret |-> Nil, io |-> IONone]
    ELSE IF ob.prepared THEN [o |-> ob, ret |-> Nil, io |-> IONone]
    ELSE PreparedIfNil(prepareBody(tree, ob, doc, e))

\* Variant of object.prepare without the "isChain" test.
object_prepare_NoChainGuard(tree, ob, doc, e) ==
    IF ob.prepared THEN [o |-> ob, ret |-> Nil, io |-> IONone]
    ELSE prepareBody(tree, [ob EXCEPT !.prepared = TRUE], doc, e)

object_prepare(tree, ob, doc, e) ==
    IF ob.isChain THEN [o |-> ob, ret |-> Nil, io |-> IONone]
    ELSE IF ob.prepared THEN [o |-> ob, ret |-> Nil, io |-> IONone]
    ELSE prepareBody(tree, [ob EXCEPT !.prepared = TRUE], doc, e)

(***************************************************************************)
(* The state of a locate call in progress: the frames of the locateInner   *)
(* calls that are reading a directory, the call about to start, the value  *)
(* a call has just returned, and how the calls made so far returned.       *)
(***************************************************************************)
WalkNone ==
    [stack  |-> <<>>,
     call   |-> [active |-> FALSE, path |-> <<>>],
     result |-> [active |-> FALSE, err |-> Nil],
     last   |-> [how |-> "none", entry |-> 0, exit |-> 0],
     exits  |-> {}]

\* No callers: the state of the object table outside SpecRace.
RaceNone == [serialized |-> {}, objs |-> <<>>, pc |-> <<>>, on |-> <<>>, runs |-> <<>>]

(***************************************************************************)
(* The inputs: documents, objects and locator arguments.                   *)
(***************************************************************************)
VarF == "${f}"
VarD == "${d}"

VariableSets ==
    { <<>>,
      <<[Key |-> VarF, Value |-> <<"a">>], [Key |-> VarD, Value |-> <<"r">>]>>,
      <<[Key |-> VarF, Value |-> <<"(">>]>> }

Paths == { <<>>, <<"/", "r">>, <<"/", VarD>> }

FilePatterns == { <<>>, <<"a">>, <<"(">>, <<VarF>> }

Expressions == { <<>>, <<"k", "(", ".", ")">>,
                 <<"(", "k", ")", "(", ".", ")">>, <<"(">> }

Objects ==
    [Object      : { <<>>, <<"o">> },
     FileContent : [Path : Paths, File : FilePatterns,
                    Expression : Expressions, matches : { <<>> }],
     FileName    : [Path : { <<>>, <<"/", "r">> }],
     Package     : [Name : { <<>>, <<"p">> }],
     Raw         : [Identifiers : { <<>>, << <<"i">> >> }],
     isChain     : {FALSE},
     prepared    : {FALSE},
     err         : {Nil}]

ExtNone == [validate |-> Nil, prepare |-> Nil, isChain |-> FALSE]

ExtAnswers ==
    { ExtNone,
      [validate |-> Nil, prepare |-> Nil, isChain |-> TRUE],
      [validate |-> Nil, prepare |-> Errorf("source check failed"), isChain |-> FALSE],
      [validate |-> Errorf("source is not valid"),
       prepare |-> Errorf("source check failed"), isChain |-> TRUE] }

\* A source that is not the active one is either unset (the zero value) or
\* a complete, valid configuration.
InactiveFileContent(f) ==
    IF f.Path = <<>> THEN f.File = <<>> /\ f.Expression = <<>>
    ELSE f.File = <<"a">> /\ f.Expression = <<"k", "(", ".", ")">>

Roots == { <<"/">>, <<"/", "r">>, <<"/", "r", "/", "w">>, <<"/", "x">>, <<>> }

Targets == { <<>>, <<"a">>, <<".">>, <<"(">>, <<"a", "b">> }

ArgNone == [target |-> <<>>, useRegexp |-> FALSE]

(***************************************************************************)
(* The object life cycle: a document's object is validated, marked,        *)
(* prepared and queried in any order and any number of times.              *)
(***************************************************************************)
Init ==
    /\ fs \in FileSystems
    /\ d \in [Variables : VariableSets]
    /\ o \in Objects
    /\ ext \in ExtAnswers
    /\ getSourceInterface(o) \in {"FileContent", "nil"} => ext = ExtNone
    /\ getSourceInterface(o) # "FileContent" => InactiveFileContent(o.FileContent)
    /\ sfl = newSimpleFileLocator
    /\ op = "new"
    /\ arg = ArgNone
    /\ ret = Nil
    /\ criteria = <<>>
    /\ si = "-"
    /\ io = IONone
    /\ panicked = FALSE
    /\ walk = WalkNone
    /\ race = RaceNone

Validate ==
    /\ ~panicked
    /\ op' = "validate"
    /\ ret' = object_validate(o, ext)
    /\ si' = IF Len(o.Object) = 0 THEN "-" ELSE getSourceInterface(o)
    /\ io' = IONone
    /\ UNCHANGED <<fs, d, ext, o, sfl, arg, criteria, panicked, walk, race>>

\* o.isChain = o.getSourceInterface().isChain(); a nil interface panics.
MarkChain ==
    /\ ~panicked
    /\ op' = "markChain"
    /\ si' = getSourceInterface(o)
    /\ panicked' = (si' = "nil")
    /\ o' = IF si' = "nil" THEN o ELSE [o EXCEPT !.isChain = si_isChain(o, ext, si')]
    /\ ret' = Nil
    /\ io' = IONone
    /\ UNCHANGED <<fs, d, ext, sfl, arg, criteria, walk, race>>

\* si.mergeCriteria(si.fireChains(d)); a nil interface panics.  No source
\* modelled here declares a chain dependency, so nothing is merged.
FireChains ==
    /\ ~panicked
    /\ op' = "fireChains"
    /\ si' = getSourceInterface(o)
    /\ panicked' = (si' = "nil")
    /\ ret' = Nil
    /\ io' = IONone
    /\ UNCHANGED <<fs, d, ext, o, sfl, arg, criteria, walk, race>>

\* The object, the return value and the I/O of a prepare call that gave r.
PrepareReturns(r) ==
    /\ o' = r.o
    /\ ret' = r.ret
    /\ io' = r.io

Prepare ==
    /\ ~panicked
    /\ op' = "prepare"
    /\ PrepareReturns(object_prepare(fs, o, d, ext))
    /\ si' = IF o.isChain \/ o.prepared THEN "-" ELSE getSourceInterface(o)
    /\ UNCHANGED <<fs, d, ext, sfl, arg, criteria, panicked, walk, race>>

\* o.FileContent.getCriteria()
GetCriteria ==
    /\ ~panicked
    /\ op' = "getCriteria"
    /\ criteria' = FileContent_getCriteria(o.FileContent)
    /\ ret' = Nil
    /\ si' = "-"
    /\ io' = IONone
    /\ UNCHANGED <<fs, d, ext, o, sfl, arg, panicked, walk, race>>

Next == Validate \/ MarkChain \/ FireChains \/ Prepare \/ GetCriteria

Spec == Init /\ [][Next]_vars

(***************************************************************************)
(* The locator on its own: one simpleFileLocator, its root set as          *)
(* FileContent.prepare sets it, and any number of locate calls.            *)
(***************************************************************************)
ObjectNone ==
    [Object |-> <<>>,
     FileContent |-> [Path |-> <<>>, File |-> <<>>, Expression |-> <<>>, matches |-> <<>>],
     FileName |-> [Path |-> <<>>], Package |-> [Name |-> <<>>],
     Raw |-> [Identifiers |-> <<>>],
     isChain |-> FALSE, prepared |-> FALSE, err |-> Nil]

InitLocator ==
    /\ fs \in FileSystems
    /\ d = [Variables |-> <<>>]
    /\ o = ObjectNone
    /\ ext = ExtNone
    /\ sfl \in {[newSimpleFileLocator EXCEPT !.root = r] : r \in Roots}
    /\ op = "new"
    /\ arg = ArgNone
    /\ ret = Nil
    /\ criteria = <<>>
    /\ si = "-"
    /\ io = IONone
    /\ panicked = FALSE
    /\ walk = WalkNone
    /\ race = RaceNone

\* The locator, the return value and the I/O of a locate call that gave r.
LocateReturns(r) ==
    /\ sfl' = r.s
    /\ ret' = r.err
    /\ io' = [IONone EXCEPT !.reads = r.reads]

Locate ==
    /\ \E target \in Targets, useRegexp \in BOOLEAN :
          /\ LocateReturns(locate(fs, sfl, target, useRegexp))
          /\ arg' = [target |-> target, useRegexp |-> useRegexp]
    /\ op' = "locate"
    /\ UNCHANGED <<fs, d, ext, o, criteria, si, panicked, walk, race>>

NextLocator == Locate

SpecLocator == InitLocator /\ [][NextLocator]_vars

(***************************************************************************)
(* One locate call step by step: every call of locateInner, every entry    *)
(* of a directory and every return is a step, so that curDepth can be      *)
(* observed while the traversal is under way.                              *)
(***************************************************************************)
InitWalk == InitLocator

\* if path == "" { spath = s.root } else { spath = path }
SpathOf(path) == IF path = <<>> THEN sfl.root ELSE path

\* A locateInner call that was entered at depth entry returns err: the
\* locator is s and the frames still open are stack.
Returned(s, stack, how, entry, err) ==
    /\ sfl' = s
    /\ walk' = [stack  |-> stack,
                call   |-> [active |-> FALSE, path |-> <<>>],
                result |-> [active |-> TRUE, err |-> err],
                last   |-> [how |-> how, entry |-> entry, exit |-> s.curDepth],
                exits  |-> walk.exits \cup {how}]

\* locate(target, useRegexp) up to its call of locateInner.
StartLocate ==
    /\ op # "walking"
    /\ \E target \in Targets, useRegexp \in BOOLEAN :
          arg' = [target |-> target, useRegexp |-> useRegexp]
    /\ IF sfl.executed
       THEN /\ op' = "locate"
            /\ ret' = Errorf("locator has already been executed")
            /\ UNCHANGED <<sfl, walk>>
       ELSE /\ op' = "walking"
            /\ ret' = Nil
            /\ sfl' = [sfl EXCEPT !.executed = TRUE]
            /\ walk' = [walk EXCEPT !.call = [active |-> TRUE, path |-> <<>>]]
    /\ io' = IONone
    /\ UNCHANGED <<fs, d, ext, o, criteria, si, panicked, race>>

\* locateInner from the answer rd of ioutil.ReadDir(spath) on, s being the
\* locator after s.curDepth++.
ReadDirAnswered(s, spath, rd, entry) ==
    IF rd.err
    THEN Returned(LeaveDepth(s), walk.stack, "unreadable", entry, Nil)
    ELSE /\ sfl' = s
         /\ walk' = [walk EXCEPT !.call = [active |-> FALSE, path |-> <<>>],
                                 !.stack = Append(@, [spath |-> spath,
                                                      dirents |-> rd.dirents,
                                                      i |-> 1, entry |-> entry])]

\* A call of locateInner from its first line to the start of its loop.
EnterDir ==
    /\ op = "walking"
    /\ walk.call.active
    /\ IF ExceedsDepth(sfl)
       THEN /\ Returned(sfl, walk.stack, "skip", sfl.curDepth, Nil)
            /\ io' = io
       ELSE IF arg.useRegexp /\ ~regexp_Compile(arg.target)
       THEN /\ Returned(sfl, walk.stack, "compile", sfl.curDepth,
                        Errorf("regexp: parse error"))
            /\ io' = io
       ELSE /\ ReadDirAnswered([sfl EXCEPT !.curDepth = @ + 1],
                               SpathOf(walk.call.path),
                               ReadDir(fs, SpathOf(walk.call.path)), sfl.curDepth)
            /\ io' = [io EXCEPT !.reads = Append(@, SpathOf(walk.call.path))]
    /\ UNCHANGED <<fs, d, ext, o, op, arg, ret, criteria, si, panicked, race>>

\* One round of "for _, x := range dirents" in the innermost call, or the
\* return nil after the last round.
LoopStep ==
    /\ op = "walking"
    /\ ~walk.call.active
    /\ ~walk.result.active
    /\ walk.stack # <<>>
    /\ LET n   == Len(walk.stack)
           top == walk.stack[n]
       IN  IF top.i > Len(top.dirents)
           THEN Returned(LeaveDepth(sfl), SubSeq(walk.stack, 1, n - 1), "done",
                         top.entry, Nil)
           ELSE IF top.dirents[top.i].kind = "dir"
           THEN /\ sfl' = sfl
                /\ walk' = [walk EXCEPT !.call =
                               [active |-> TRUE,
                                path |-> Join(top.spath, top.dirents[top.i].name)]]
           ELSE IF /\ top.dirents[top.i].kind = "file"
                   /\ NameMatches(arg.target, arg.useRegexp, top.dirents[top.i].name)
           THEN /\ sfl' = [sfl EXCEPT !.matches =
                              Append(@, Join(top.spath, top.dirents[top.i].name))]
                /\ walk' = [walk EXCEPT !.stack[n].i = @ + 1]
           ELSE /\ sfl' = sfl
                /\ walk' = [walk EXCEPT !.stack[n].i = @ + 1]
    /\ UNCHANGED <<fs, d, ext, o, op, arg, ret, io, criteria, si, panicked, race>>

\* The caller takes the value a locateInner call returned: locate returns
\* it, and an enclosing locateInner returns it when it is an error and goes
\* on with its next entry otherwise.
Deliver ==
    /\ op = "walking"
    /\ walk.result.active
    /\ IF walk.stack = <<>>
       THEN /\ op' = "locate"
            /\ ret' = walk.result.err
            /\ sfl' = sfl
            /\ walk' = [walk EXCEPT !.result.active = FALSE]
       ELSE IF ~walk.result.err.nil
       THEN /\ Returned(LeaveDepth(sfl), SubSeq(walk.stack, 1, Len(walk.stack) - 1),
                        "propagated", walk.stack[Len(walk.stack)].entry,
                        walk.result.err)
            /\ UNCHANGED <<op, ret>>
       ELSE /\ walk' = [walk EXCEPT !.result.active = FALSE,
                                    !.stack[Len(walk.stack)].i = @ + 1]
            /\ UNCHANGED <<sfl, op, ret>>
    /\ UNCHANGED <<fs, d, ext, o, arg, io, criteria, si, panicked, race>>

NextWalk == StartLocate \/ EnterDir \/ LoopStep \/ Deliver

SpecWalk == InitWalk /\ [][NextWalk]_vars

(***************************************************************************)
(* Callers of object.prepare that are not synchronized by the program:     *)
(* each call is the sequence of its statements, and the statements of      *)
(* different callers interleave.  The document decides nothing about who   *)
(* calls when; an object in race.serialized is one whose callers take      *)
(* turns, so that a call on it starts only when no other call on it is     *)
(* under way.                                                              *)
(***************************************************************************)
NumCallers == 3

Callers == 1..NumCallers

ObjIds == {1, 2}

\* A non-chain object with a file-content source.
RaceObject ==
    [ObjectNone EXCEPT !.Object = <<"o">>,
                       !.FileContent = [Path |-> <<"/", "r">>, File |-> <<"a">>,
                                        Expression |-> <<"k", "(", ".", ")">>,
                                        matches |-> <<>>]]

InitRace ==
    /\ fs = BroadFS
    /\ d = [Variables |-> <<>>]
    /\ o = ObjectNone
    /\ ext = ExtNone
    /\ sfl = newSimpleFileLocator
    /\ op = "new"
    /\ arg = ArgNone
    /\ ret = Nil
    /\ criteria = <<>>
    /\ si = "-"
    /\ io = IONone
    /\ panicked = FALSE
    /\ walk = WalkNone
    /\ race \in {[serialized |-> S,
                  objs |-> [i \in ObjIds |-> RaceObject],
                  pc   |-> [c \in Callers |-> "idle"],
                  on   |-> [c \in Callers |-> 0],
                  runs |-> [i \in ObjIds |-> 0]] : S \in SUBSET ObjIds}

\* No call on object id is under way, caller c left aside.
NoCallUnderWay(c, id) ==
    \A c2 \in Callers \ {c} : race.on[c2] = id => race.pc[c2] = "idle"

\* Caller c calls prepare on an object.
Call(c) ==
    /\ race.pc[c] = "idle"
    /\ \E id \in ObjIds :
          /\ id \in race.serialized => NoCallUnderWay(c, id)
          /\ race' = [race EXCEPT !.pc[c] = "guards", !.on[c] = id]

\* Variant of AlreadyPrepared that never finds the object prepared.
AlreadyPrepared_Never(ob) == FALSE

\* if o.prepared { return nil }
AlreadyPrepared(ob) == ob.prepared

\* The tests of o.isChain and o.prepared at the top of object.prepare.
Guards(c) ==
    /\ race.pc[c] = "guards"
    /\ race' = [race EXCEPT !.pc[c] =
                   IF race.objs[race.on[c]].isChain \/ AlreadyPrepared(race.objs[race.on[c]])
                   THEN "idle" ELSE "set"]

\* o.prepared = true
SetPrepared(c) ==
    /\ race.pc[c] = "set"
    /\ race' = [race EXCEPT !.pc[c] = "body", !.objs[race.on[c]].prepared = TRUE]

\* The rest of object.prepare: the source interface is resolved, expanded
\* and prepared, and the call returns.
Body(c) ==
    /\ race.pc[c] = "body"
    /\ race' = [race EXCEPT !.pc[c] = "idle",
                            !.objs[race.on[c]] = prepareBody(fs, @, d, ext).o,
                            !.runs[race.on[c]] = @ + 1]

Step(c) == Call(c) \/ Guards(c) \/ SetPrepared(c) \/ Body(c)

NextRace ==
    /\ \E c \in Callers : Step(c)
    /\ UNCHANGED <<fs, d, ext, o, sfl, op, arg, ret, criteria, si, io, panicked, walk>>

SpecRace == InitRace /\ [][NextRace]_vars

(***************************************************************************)
(* Vocabulary of the properties.                                           *)
(***************************************************************************)
Order == <<"Package", "FileContent", "FileName", "Raw">>

IsPopulated(ob, v) ==
    CASE v = "Package"     -> ob.Package.Name # <<>>
      [] v = "FileContent" -> ob.FileContent.Path # <<>>
      [] v = "FileName"    -> ob.FileName.Path # <<>>
      [] v = "Raw"         -> ob.Raw.Identifiers # <<>>

Populated(ob) == {k \in 1..Len(Order) : IsPopulated(ob, Order[k])}

\* ob with every populated variant after the first one of Order emptied.
OnlyFirst(ob) ==
    LET first == CHOOSE k \in Populated(ob) : \A j \in Populated(ob) : k <= j
        keep(k) == k = first
    IN  [ob EXCEPT !.Package.Name     = IF keep(1) THEN @ ELSE <<>>,
                   !.FileContent.Path = IF keep(2) THEN @ ELSE <<>>,
                   !.FileName.Path    = IF keep(3) THEN @ ELSE <<>>,
                   !.Raw.Identifiers  = IF keep(4) THEN @ ELSE <<>>]

NoValidInterface(id) == ErrorfId(id, "no valid source interface")

AlreadyExecuted == Errorf("locator has already been executed")

SeqSet(q) == {q[i] : i \in 1..Len(q)}

\* A prepare call that was skipped by one of the two guards of object.prepare
\* resolves no source interface.
RepeatedPrepare == op = "prepare" /\ si = "-" /\ ~o.isChain /\ o.prepared

ConfigUnchanged ==
    /\ o'.Object = o.Object
    /\ o'.FileContent.Path = o.FileContent.Path
    /\ o'.FileContent.File = o.FileContent.File
    /\ o'.FileContent.Expression = o.FileContent.Expression
    /\ o'.FileName = o.FileName
    /\ o'.Package = o.Package
    /\ o'.Raw = o.Raw

C2_PrepareIdempotent ==
    [][(op' = "prepare" /\ ~o.isChain)
          => /\ o'.prepared
             /\ o.prepared =>
                  /\ FileContent_getCriteria(o'.FileContent)
                        = FileContent_getCriteria(o.FileContent)
                  /\ ConfigUnchanged
                  /\ io' = IONone]_vars

C2_Witness ==
    /\ RepeatedPrepare
    /\ o.err.nil
    /\ FileContent_getCriteria(o.FileContent) # <<>>

(***************************************************************************)
(* C3: a first prepare call on a non-chain object that fails leaves        *)
(* prepared true and the returned error in err; every later prepare call   *)
(* on it returns nil, runs neither expandVariables nor the variant's       *)
(* prepare, and leaves err as it was.                                      *)
(***************************************************************************)
C3_AtMostOnceOnFailure ==
    [][(op' = "prepare" /\ ~o.isChain)
          => /\ (~o.prepared /\ ~ret'.nil) => (o'.prepared /\ o'.err = ret')
             /\ (o.prepared /\ ~o.err.nil)
                  => (ret'.nil /\ io' = IONone /\ o'.err = o.err /\ o'.prepared)]_vars

C3_Witness ==
    /\ RepeatedPrepare
    /\ ~o.err.nil
    /\ ret.nil

(***************************************************************************)
(* C4: a prepare call on an object whose isChain flag is true returns nil, *)
(* reads no directory, opens no file, expands no variable and leaves the   *)
(* whole object (prepared, err and the accumulated matches included)       *)
(* unchanged.                                                              *)
(***************************************************************************)
C4_ChainNeverPrepares ==
    [][(op' = "prepare" /\ o.isChain) => (ret'.nil /\ io' = IONone /\ o' = o)]_vars

C4_Witness ==
    /\ op = "prepare"
    /\ o.isChain
    /\ ~o.prepared
    /\ ret.nil

(***************************************************************************)
(* C5: a locate call on a locator that has already executed returns the    *)
(* "already executed" error, reads no directory and leaves matches and     *)
(* curDepth unchanged, whatever the first call returned.                   *)
(***************************************************************************)
C5_LocatorSingleUse ==
    [][(op' = "locate" /\ sfl.executed)
          => /\ ret' = AlreadyExecuted
             /\ io'.reads = <<>>
             /\ sfl'.matches = sfl.matches
             /\ sfl'.curDepth = sfl.curDepth]_vars

C5_Witness ==
    /\ op = "locate"
    /\ ret = AlreadyExecuted
    /\ io.reads = <<>>
    /\ sfl.matches # <<>>

(***************************************************************************)
(* The directories of a tree seen from a locator root: the root itself     *)
(* (depth 1) and every directory entry below it, each with its depth and   *)
(* with whether ReadDir succeeds on every one of its ancestors.            *)
(***************************************************************************)
RECURSIVE DirsBelow(_, _, _, _)
DirsBelow(tree, path, depth, ancestorsRead) ==
    LET n    == Resolve(tree, path)
        subs == IF n.kind = "dir"
                THEN {i \in 1..Len(n.entries) : n.entries[i].kind = "dir"}
                ELSE {}
    IN  {[path |-> path, depth |-> depth, ancestorsRead |-> ancestorsRead]}
        \cup UNION {DirsBelow(tree, Join(path, n.entries[i].name), depth + 1,
                              ancestorsRead /\ ~ReadDir(tree, path).err) : i \in subs}

\* The paths a full traversal within the depth limit hands to ReadDir.
DirsToRead ==
    {x.path : x \in {y \in DirsBelow(fs, sfl.root, 1, TRUE) :
                        y.depth <= sfl.maxDepth /\ y.ancestorsRead}}

\* The regular files of the directories that were read, by path.
FilesReached ==
    UNION {LET n == Resolve(fs, p)
           IN  IF ReadDir(fs, p).err THEN {}
               ELSE {[path |-> Join(p, n.entries[i].name), name |-> n.entries[i].name] :
                        i \in {j \in 1..Len(n.entries) : n.entries[j].kind = "file"}}
           : p \in DirsToRead}

\* The depth of the directory that holds the file or directory at path.
DepthOfParent(path) == Len(Split(path)) - Len(Split(sfl.root))

FirstLocate == op = "locate" /\ ret # AlreadyExecuted

TargetUsable == arg.useRegexp => regexp_Compile(arg.target)

DepthTruncation ==
    /\ SeqSet(io.reads) = DirsToRead
    /\ \A i \in 1..Len(sfl.matches) : DepthOfParent(sfl.matches[i]) <= sfl.maxDepth

(***************************************************************************)
(* C6 (as stated): with the root at depth 1, a locate call reads a         *)
(* directory exactly when its depth is at most maxDepth and ReadDir        *)
(* succeeded on all its ancestors, and no file of a directory deeper than  *)
(* maxDepth is in matches.                                                 *)
(***************************************************************************)
C6_AsStated == FirstLocate => DepthTruncation

(***************************************************************************)
(* C6 (amended): when the target is literal or compiles as a regular       *)
(* expression, a locate call reads a directory exactly when its depth is   *)
(* at most maxDepth and ReadDir succeeded on all its ancestors, no file    *)
(* of a directory deeper than maxDepth is in matches, and locate returns   *)
(* nil.  (With a target that does not compile, locate returns the compile  *)
(* error before it reads the root.)                                        *)
(***************************************************************************)
C6_DepthTruncation ==
    (FirstLocate /\ TargetUsable) => (DepthTruncation /\ ret.nil)

C6_Witness ==
    /\ FirstLocate
    /\ TargetUsable
    /\ ret.nil
    /\ Len(io.reads) = sfl.maxDepth
    /\ Len(sfl.matches) = sfl.maxDepth
    /\ \E x \in DirsBelow(fs, sfl.root, 1, TRUE) :
          /\ x.depth > sfl.maxDepth
          /\ \E i \in 1..Len(Resolve(fs, x.path).entries) :
                LET e == Resolve(fs, x.path).entries[i]
                IN  e.kind = "file" /\ NameMatches(arg.target, arg.useRegexp, e.name)

(***************************************************************************)
(* C7: when ReadDir fails on a directory during a locate call, locate      *)
(* still returns nil, and matches holds every regular file with a matching *)
(* name of every directory within the depth limit that the traversal       *)
(* could read, those visited after the failure included.                   *)
(***************************************************************************)
C7_PartialFailure ==
    (FirstLocate /\ \E i \in 1..Len(io.reads) : ReadDir(fs, io.reads[i]).err)
        => /\ ret.nil
           /\ \A f \in FilesReached :
                 NameMatches(arg.target, arg.useRegexp, f.name)
                    => f.path \in SeqSet(sfl.matches)

C7_Witness ==
    /\ FirstLocate
    /\ ret.nil
    /\ \E i, j \in 1..Len(io.reads) :
          /\ i < j
          /\ ReadDir(fs, io.reads[i]).err
          /\ ~ReadDir(fs, io.reads[j]).err
          /\ \E f \in FilesReached :
                /\ f.path = Join(io.reads[j], f.name)
                /\ f.path \in SeqSet(sfl.matches)

(***************************************************************************)
(* Counting capture groups: in the first n match lines of a file, and in   *)
(* the first n content matches.                                            *)
(***************************************************************************)
RECURSIVE GroupsInLines(_, _), GroupsInMatches(_, _)
GroupsInLines(lines, n) ==
    IF n = 0 THEN 0 ELSE GroupsInLines(lines, n - 1) + Len(lines[n].groups)

GroupsInMatches(ms, n) ==
    IF n = 0 THEN 0
    ELSE GroupsInMatches(ms, n - 1) + GroupsInLines(ms[n].matches, Len(ms[n].matches))

\* c holds one record per capture group per match line per content match
\* of ms, files first, then lines, then groups.
OnePerGroup(c, ms) ==
    /\ Len(c) = GroupsInMatches(ms, Len(ms))
    /\ \A i \in 1..Len(ms) :
          \A j \in 1..Len(ms[i].matches) :
             \A k \in 1..Len(ms[i].matches[j].groups) :
                c[GroupsInMatches(ms, i - 1) + GroupsInLines(ms[i].matches, j - 1) + k]
                   = [Identifier |-> ms[i].path,
                      TestValue  |-> ms[i].matches[j].groups[k]]

(***************************************************************************)
(* C8: getCriteria returns one record per capture group per match line     *)
(* per content match (as many records as there are groups in all recorded  *)
(* match lines), each with the file's path as identifier and the group's   *)
(* text as test value, in file, then line, then group order; and it        *)
(* leaves the object, its accumulated matches included, unchanged.         *)
(***************************************************************************)
C8_CriteriaPerGroup ==
    [][op' = "getCriteria"
          => (OnePerGroup(criteria', o.FileContent.matches) /\ o' = o)]_vars

\* One capture group, two matching lines in one file: two records.
C8_Witness ==
    /\ op = "getCriteria"
    /\ o.FileContent.Expression = <<"k", "(", ".", ")">>
    /\ \E i \in 1..(Len(criteria) - 1) :
          /\ criteria[i].Identifier = <<"/", "r", "/", "a">>
          /\ criteria[i + 1].Identifier = <<"/", "r", "/", "a">>
          /\ criteria[i].TestValue = <<"1">>
          /\ criteria[i + 1].TestValue = <<"2">>

\* Some line of the file at path satisfies the content expression expr.
SomeLineMatches(path, expr) ==
    LET lines == ReadLines(Resolve(fs, path).data)
    IN  \E i \in 1..Len(lines) : MatchString(expr, lines[i])

(***************************************************************************)
(* C9: every content match in the accumulated matches has at least one     *)
(* match line and names a file in which some line satisfies the content    *)
(* expression: a located file without such a line contributes no content   *)
(* match, hence no evaluation criteria.                                    *)
(***************************************************************************)
C9_NoEmptyContentMatch ==
    \A i \in 1..Len(o.FileContent.matches) :
       /\ Len(o.FileContent.matches[i].matches) >= 1
       /\ SomeLineMatches(o.FileContent.matches[i].path, o.FileContent.Expression)

\* A prepare call opened a readable file without a matching line, recorded
\* other files and left that one out.
C9_Witness ==
    /\ op = "prepare"
    /\ o.FileContent.matches # <<>>
    /\ \E i \in 1..Len(io.opens) :
          /\ Resolve(fs, io.opens[i]).kind = "file"
          /\ Resolve(fs, io.opens[i]).st = "ok"
          /\ ~SomeLineMatches(io.opens[i], o.FileContent.Expression)
          /\ \A j \in 1..Len(o.FileContent.matches) :
                o.FileContent.matches[j].path # io.opens[i]

(***************************************************************************)
(* C10: getSourceInterface returns the first populated variant in the      *)
(* order Package, FileContent, FileName, Raw, whichever later variants     *)
(* are populated too, and nil when none is populated.                      *)
(***************************************************************************)
C10_ResolutionOrder ==
    [][si' # "-"
          => /\ Populated(o) = {} => si' = "nil"
             /\ \A k \in Populated(o) :
                   (\A j \in Populated(o) : k <= j) => si' = Order[k]]_vars

C10_Witness ==
    /\ op = "validate"
    /\ si = "Package"
    /\ Populated(o) = {1, 2, 3, 4}

(***************************************************************************)
(* C11 (as stated): every error that a prepare call returns, and every     *)
(* error cached in err, is wrapped with the identifier of the object.      *)
(***************************************************************************)
C11_AsStated ==
    /\ (op = "prepare" /\ ~ret.nil) => (ret.wrapped /\ ret.id = o.Object)
    /\ ~o.err.nil => (o.err.wrapped /\ o.err.id = o.Object)

\* The prepare body of a file-content object ran in the last call.
FileContentBodyRan == op = "prepare" /\ si = "FileContent"

(***************************************************************************)
(* C12 (as stated): when the prepare body of a file-content object runs    *)
(* with a filename pattern or a content expression that does not compile,  *)
(* the prepare call returns an error and caches it in err.                 *)
(***************************************************************************)
C12_AsStated ==
    (/\ FileContentBodyRan
     /\ \/ ~regexp_Compile(o.FileContent.File)
        \/ ~regexp_Compile(o.FileContent.Expression))
        => (~ret.nil /\ o.err = ret)

\* ob resolves to its file-content source, whose path and filename pattern
\* are set and valid and whose content expression does not compile.
OnlyExpressionBad(ob) ==
    /\ ob.Object # <<>>
    /\ ob.Package.Name = <<>>
    /\ ob.FileContent.Path # <<>>
    /\ ob.FileContent.File # <<>>
    /\ regexp_Compile(ob.FileContent.File)
    /\ ~regexp_Compile(ob.FileContent.Expression)

(***************************************************************************)
(* C13: a validate call reads no directory, opens no file and changes      *)
(* neither the object nor the file system; on a file-content object whose  *)
(* path and filename pattern are set and valid and whose content           *)
(* expression does not compile it returns an error.                        *)
(***************************************************************************)
C13_ValidateWithoutFilesystem ==
    [][op' = "validate"
          => /\ o' = o
             /\ fs' = fs
             /\ io' = IONone
             /\ OnlyExpressionBad(o) => ~ret'.nil]_vars

C13_Witness ==
    /\ op = "validate"
    /\ OnlyExpressionBad(o)
    /\ ~ret.nil
    /\ ret.id = o.Object
    /\ io = IONone
    /\ ~o.prepared

\* Every line of data up to end-of-file, a final line without a newline
\* included.
RECURSIVE AllLines(_)
AllLines(data) ==
    IF data = <<>> THEN <<>>
    ELSE IF \A i \in 1..Len(data) : data[i] # NL THEN <<data>>
    ELSE LET n == CHOOSE i \in 1..Len(data) :
                      data[i] = NL /\ \A j \in 1..(i - 1) : data[j] # NL
         IN  <<SubSeq(data, 1, n)>> \o AllLines(SubSeq(data, n + 1, Len(data)))

(***************************************************************************)
(* C15 (as stated): the match lines recorded for a readable file under a   *)
(* compiling expression are the matching lines among all lines of the      *)
(* file up to end-of-file, a final line without a newline included, in     *)
(* top-to-bottom order, each with its full match and its groups.           *)
(***************************************************************************)
C15_AsStated ==
    (FileContentBodyRan /\ regexp_Compile(o.FileContent.Expression))
        => \A i \in 1..Len(o.FileContent.matches) :
              o.FileContent.matches[i].matches
                 = MatchLines(o.FileContent.Expression,
                              AllLines(Resolve(fs, o.FileContent.matches[i].path).data))

\* The files the locator of the last prepare call reported, in order.
LocatedFiles ==
    locate(fs, [newSimpleFileLocator EXCEPT !.root = o.FileContent.Path],
           o.FileContent.File, TRUE).s.matches

\* The content matcher fails on the file at path.
MatcherFails(path) == ~fileContentCheck(fs, path, o.FileContent.Expression).err.nil

\* The content matcher yields at least one match line for the file at path.
HasMatchLine(path) ==
    /\ ~MatcherFails(path)
    /\ fileContentCheck(fs, path, o.FileContent.Expression).m # <<>>

(***************************************************************************)
(* C16: when the prepare body of a file-content object has located its     *)
(* files, it returns nil, it has handed every located file to the content  *)
(* matcher (opened it, when the expression compiles) whether or not the    *)
(* matcher failed on an earlier one, and the accumulated matches are the   *)
(* located files with at least one match line, in discovery order, each    *)
(* with the match lines the matcher returned.                              *)
(***************************************************************************)
C16_BestEffortPerFile ==
    (FileContentBodyRan /\ regexp_Compile(o.FileContent.File))
        => /\ ret.nil
           /\ regexp_Compile(o.FileContent.Expression) => io.opens = LocatedFiles
           /\ [i \in 1..Len(o.FileContent.matches) |-> o.FileContent.matches[i].path]
                 = SelectSeq(LocatedFiles, HasMatchLine)
           /\ \A i \in 1..Len(o.FileContent.matches) :
                 o.FileContent.matches[i].matches
                    = fileContentCheck(fs, o.FileContent.matches[i].path,
                                       o.FileContent.Expression).m

\* The matcher failed on a located file, and a file located after it is in
\* the accumulated matches.
C16_Witness ==
    /\ FileContentBodyRan
    /\ ret.nil
    /\ regexp_Compile(o.FileContent.Expression)
    /\ \E i, j \in 1..Len(LocatedFiles) :
          /\ i < j
          /\ MatcherFails(LocatedFiles[i])
          /\ \E k \in 1..Len(o.FileContent.matches) :
                o.FileContent.matches[k].path = LocatedFiles[j]

(***************************************************************************)
(* C18 (as stated): when a prepare call runs the file-content body right   *)
(* after a validate call that returned nil, the filename pattern and the   *)
(* content expression the body uses both compile.                          *)
(***************************************************************************)
C18_AsStated ==
    [][(op = "validate" /\ ret.nil /\ op' = "prepare" /\ si' = "FileContent")
          => /\ regexp_Compile(o'.FileContent.File)
             /\ regexp_Compile(o'.FileContent.Expression)]_vars

(***************************************************************************)
(* C19: in every state reached by validate, markChain, fireChains,         *)
(* prepare and getCriteria calls made one at a time, each file path        *)
(* occurs at most once in the accumulated content matches.                 *)
(***************************************************************************)
C19_PathsUnique ==
    \A i, j \in 1..Len(o.FileContent.matches) :
       o.FileContent.matches[i].path = o.FileContent.matches[j].path => i = j

C19_Witness ==
    /\ RepeatedPrepare
    /\ Len(o.FileContent.matches) >= 2

(***************************************************************************)
(* C20: prepared never goes from true to false; err is non-nil only when   *)
(* prepared is true; an err that is set is never cleared or replaced; and  *)
(* validate and getCriteria calls change none of prepared, isChain, err.   *)
(***************************************************************************)
C20_LifecycleFlags ==
    [][/\ o.prepared => o'.prepared
       /\ ~o'.err.nil => o'.prepared
       /\ ~o.err.nil => o'.err = o.err
       /\ op' \in {"validate", "getCriteria"}
             => /\ o'.prepared = o.prepared
                /\ o'.isChain = o.isChain
                /\ o'.err = o.err]_vars

C20_Witness ==
    /\ op \in {"validate", "getCriteria"}
    /\ o.prepared
    /\ o.isChain
    /\ ~o.err.nil

\* The depth of the directory at spath, the locator's root being at depth 1.
DirDepth(spath) == Len(Split(spath)) - Len(Split(sfl.root)) + 1

(***************************************************************************)
(* C14: every call of locateInner returns with curDepth equal to its       *)
(* value at entry, whether it returns at the depth limit, on a pattern     *)
(* that does not compile, on an unreadable directory, on an error of a     *)
(* call it made, or after its last entry; curDepth is between 0 and        *)
(* maxDepth in every state; it is 0 when locate has returned; and while a  *)
(* directory is being read it is the depth of that directory.              *)
(***************************************************************************)
C14_DepthRestored ==
    /\ 0 <= sfl.curDepth
    /\ sfl.curDepth <= sfl.maxDepth
    /\ walk.last.exit = walk.last.entry
    /\ op = "locate" => sfl.curDepth = 0
    /\ (op = "walking" /\ walk.stack = <<>>) => sfl.curDepth = 0
    /\ walk.stack # <<>>
          => sfl.curDepth = DirDepth(walk.stack[Len(walk.stack)].spath)

\* locate has returned from a traversal in which a call returned at the
\* depth limit and other calls returned after their last entry.
C14_Witness ==
    /\ op = "locate"
    /\ ret.nil
    /\ {"skip", "done"} \subseteq walk.exits
    /\ sfl.matches # <<>>
    /\ sfl.curDepth = 0

\* Every path in the matches of object id is there exactly k times.
EachPathTimes(id, k) ==
    LET m == race.objs[id].FileContent.matches
    IN  /\ m # <<>>
        /\ \A i \in 1..Len(m) :
              Cardinality({j \in 1..Len(m) : m[j].path = m[i].path}) = k

\* Two callers have called prepare on object id and have returned.
TwoCallsReturned(id) ==
    \E c1, c2 \in Callers :
       /\ c1 # c2
       /\ race.on[c1] = id /\ race.pc[c1] = "idle"
       /\ race.on[c2] = id /\ race.pc[c2] = "idle"

(***************************************************************************)
(* C17: when the prepare calls on an object are serialized, the body of    *)
(* prepare runs at most once for it and no path is twice in its matches,   *)
(* however the calls on other objects interleave; without serialization    *)
(* two callers can both pass the prepared test and both run the body, and  *)
(* every matching file is then twice in the matches (C17_Witness).         *)
(***************************************************************************)
C17_SerializedAtMostOnce ==
    \A id \in race.serialized :
       /\ race.runs[id] <= 1
       /\ \A i, j \in 1..Len(race.objs[id].FileContent.matches) :
             race.objs[id].FileContent.matches[i].path
                = race.objs[id].FileContent.matches[j].path => i = j

\* Object 1 is not serialized: two callers ran the body and every matching
\* file is twice in its matches.  Object 2 is serialized: two callers have
\* called and returned, and the body ran once.
C17_Witness ==
    /\ race.serialized = {2}
    /\ race.runs[1] = 2
    /\ EachPathTimes(1, 2)
    /\ race.runs[2] = 1
    /\ EachPathTimes(2, 1)
    /\ TwoCallsReturned(2)

====
